---- MODULE Spec2Model ----
(***************************************************************************)
(* Model of the MQTT module of the Ai-Thinker RGBW Light firmware          *)
(* (src/src/_mqtt.ino).                                                    *)
(*                                                                         *)
(* The module's state is the callback registry (_mqtt_callbacks), the      *)
(* discovery fields of cfg, the reconnect Ticker and the connection state  *)
(* held by the AsyncMqttClient object `mqtt`.  Every function of the file  *)
(* is an operator from a state record to a state record, so that a handler *)
(* and everything it calls (the registered callbacks, the functions the    *)
(* callbacks call back into) is one atomic step of the event loop.         *)
(*                                                                         *)
(* `trace` holds, in order, what the last step did: the callbacks it       *)
(* invoked, the requests it made to the transport, the timer, the flag     *)
(* and the EEPROM.                                                         *)
(***************************************************************************)
EXTENDS Integers, Sequences, FiniteSets, TLC

VARIABLES
    mqtt_callbacks,   \* _mqtt_callbacks: the registered callbacks, in order
    conn,             \* the transport's connection state (mqtt.connected())
    timers,           \* number of armed mqttReconnectTimer callbacks
    use_discovery,    \* cfg.mqtt_ha_use_discovery
    is_discovered,    \* cfg.mqtt_ha_is_discovered
    hostname,         \* cfg.hostname
    disc_prefix,      \* cfg.mqtt_ha_disc_prefix
    call,             \* the entry point run by the last step, with its arguments
    trace,            \* what the last step did, in order
    discPubs,         \* publishes to the discovery topic that reached the transport
    flagSets,         \* changes of cfg.mqtt_ha_is_discovered
    eepromWrites,     \* EEPROM_write(cfg) requests
    burst,            \* runs of onMQTTDisconnect since the reconnect timer last expired
    loop_pc,          \* a dispatch loop taken step by step: "idle", "loop" or "done"
    loop_size,        \* its _mqtt_callbacks.size()
    loop_i,           \* its uint8_t i
    loop_calls        \* how often it has invoked each callback

moduleVars ==
    <<mqtt_callbacks, conn, timers, use_discovery, is_discovered, hostname,
      disc_prefix, call, trace, discPubs, flagSets, eepromWrites, burst>>

loopVars == <<loop_pc, loop_size, loop_i, loop_calls>>

vars == <<moduleVars, loopVars>>

-----------------------------------------------------------------------------
(* Bounds of the model *)

MaxCallbacks == 2     \* callbacks that get registered
MaxBurst == 3         \* disconnects counted between two expiries of the timer
MaxInvocations == 2   \* invocations of one callback followed in one dispatch loop

(* Inputs *)

Topics == {"", "cmd"}
Messages == {"", "on"}
QosLevels == {"MQTT_QOS_LEVEL", "2"}
Reasons == {"TCP_DISCONNECTED", "MQTT_NOT_AUTHORIZED"}
\* Inbound payload buffers: bytes, a zero byte among them
Payloads == {<<1, 0, 2>>}
\* (index, bytes of the message beyond this delivery): a whole message, a later part
Fragments == {<<0, 0>>, <<1, 1>>}
Hostnames == {"ailight"}
Prefixes == {"homeassistant"}

\* What a registered callback does with the event it is handed.
\*   subscriber - calls mqttSubscribe("cmd") on every event
\*   publisher  - calls mqttPublish("state", "on") on every event
\*   dropper    - on CONNECT, closes the connection (mqtt.disconnect(true))
CallbackKinds == {"subscriber", "publisher", "dropper"}

MQTT_EVENT_CONNECT == "MQTT_EVENT_CONNECT"
MQTT_EVENT_DISCONNECT == "MQTT_EVENT_DISCONNECT"
MQTT_EVENT_MESSAGE == "MQTT_EVENT_MESSAGE"
NULL == "NULL"
MQTT_QOS_LEVEL == "MQTT_QOS_LEVEL"
MQTT_RETAIN == "MQTT_RETAIN"

-----------------------------------------------------------------------------
(* The state a function of the module reads and writes *)

State ==
    [conn |-> conn, timers |-> timers, is_discovered |-> is_discovered,
     trace |-> <<>>, discPubs |-> discPubs, flagSets |-> flagSets,
     eepromWrites |-> eepromWrites, burst |-> burst]

\* One entry of the trace: a callback invoked (cb its index, fn the callback,
\* ev/topic/buf its arguments), a request to the transport, the Ticker or the
\* EEPROM, or a handler entered.  `up` is mqtt.connected() when the entry is made;
\* `armed` is the number of armed reconnect timers at that moment.
Blank ==
    [op |-> "", cb |-> 0, fn |-> "", ev |-> "", topic |-> "", msg |-> "",
     qos |-> "", retain |-> "", buf |-> <<>>, reason |-> ""]

Entry(st, e) ==
    [k \in DOMAIN Blank \cup {"up", "armed"} |->
        IF k = "up" THEN st.conn = "Connected"
        ELSE IF k = "armed" THEN st.timers
        ELSE IF k \in DOMAIN e THEN e[k] ELSE Blank[k]]

Log(st, e) == [st EXCEPT !.trace = Append(@, Entry(st, e))]

os_strlen(s) == Len(s)

mqtt_state_topic == "ailight/state"       \* cfg.mqtt_state_topic
mqtt_command_topic == "ailight/set"       \* cfg.mqtt_command_topic

\* "<prefix>/light/<hostname>/config"
dc_topic == disc_prefix \o "/light/" \o hostname \o "/config"

\* The discovery document, as md_root.printTo() serialises it
md_buffer ==
    "{\"name\":\"" \o hostname \o "\",\"platform\":\"mqtt_json\""
      \o ",\"state_topic\":\"" \o mqtt_state_topic \o "\""
      \o ",\"command_topic\":\"" \o mqtt_command_topic \o "\""
      \o ",\"brightness\":true,\"rgb\":true,\"white_value\":true"
      \o ",\"color_temp\":true}"

-----------------------------------------------------------------------------
(* The transport (AsyncMqttClient mqtt) and the Ticker, as the module uses them. *)
(* The client reports connected() from its connect event until the connection  *)
(* is lost or closed; it calls onMQTTDisconnect when an attempt fails, when    *)
(* the connection is lost, and from within disconnect(true) when a callback    *)
(* closes the connection.  Requests return at once; nothing is acknowledged.   *)

mqtt_connected(st) == st.conn = "Connected"

mqtt_publish(st, topic, qos, retain, payload) ==
    LET s1 == Log(st, [op |-> "publish", topic |-> topic, qos |-> qos, retain |-> retain,
                      msg |-> payload])
    IN  IF topic = dc_topic THEN [s1 EXCEPT !.discPubs = @ + 1] ELSE s1

mqtt_subscribe(st, topic, qos) ==
    Log(st, [op |-> "subscribe", topic |-> topic, qos |-> qos])

mqtt_unsubscribe(st, topic) ==
    Log(st, [op |-> "unsubscribe", topic |-> topic])

\* connect() starts an attempt unless one is running or the client is connected
mqtt_connect(st) ==
    LET s1 == Log(st, [op |-> "connect"])
    IN  IF s1.conn = "Disconnected" THEN [s1 EXCEPT !.conn = "Connecting"] ELSE s1

\* Variant: the armed callback is not detached
Ticker_once_Stacking(st) ==
    [Log(st, [op |-> "timer_once"]) EXCEPT !.timers = @ + 1]

\* Ticker::once detaches the armed callback, if any, and arms the new one
Ticker_once(st) ==
    [Log(st, [op |-> "timer_once"]) EXCEPT !.timers = 1]

EEPROM_write(st) ==
    [Log(st, [op |-> "EEPROM_write"]) EXCEPT !.eepromWrites = @ + 1]

-----------------------------------------------------------------------------
(* src/src/_mqtt.ino *)

\* Variant: a publish made while not connected starts a connection attempt
mqttPublish_Reconnects(st, topic, message) ==
    IF ~mqtt_connected(st) THEN mqtt_connect(st)
    ELSE IF os_strlen(topic) > 0 /\ os_strlen(message) > 0
         THEN mqtt_publish(st, topic, MQTT_QOS_LEVEL, MQTT_RETAIN, message)
         ELSE st

\* Variant: the connection check is missing
mqttPublish_Unguarded(st, topic, message) ==
    IF os_strlen(topic) > 0 /\ os_strlen(message) > 0
    THEN mqtt_publish(st, topic, MQTT_QOS_LEVEL, MQTT_RETAIN, message)
    ELSE st

mqttPublish(st, topic, message) ==
    IF ~mqtt_connected(st) THEN st
    ELSE IF os_strlen(topic) > 0 /\ os_strlen(message) > 0
         THEN mqtt_publish(st, topic, MQTT_QOS_LEVEL, MQTT_RETAIN, message)
         ELSE st

\* Variant: the connection check is missing
mqttSubscribe_Unguarded(st, topic, qos) ==
    IF os_strlen(topic) > 0 THEN mqtt_subscribe(st, topic, qos) ELSE st

mqttSubscribe(st, topic, qos) ==
    IF ~mqtt_connected(st) THEN st
    ELSE IF os_strlen(topic) > 0 THEN mqtt_subscribe(st, topic, qos) ELSE st

\* Variant: the empty-topic check is missing
mqttUnsubscribe_AnyTopic(st, topic) ==
    IF ~mqtt_connected(st) THEN st ELSE mqtt_unsubscribe(st, topic)

mqttUnsubscribe(st, topic) ==
    IF ~mqtt_connected(st) THEN st
    ELSE IF os_strlen(topic) > 0 THEN mqtt_unsubscribe(st, topic) ELSE st

mqttRegister(callbacks, callback) == Append(callbacks, callback)

RECURSIVE Dispatch(_, _, _, _, _)
RECURSIVE onMQTTDisconnect(_, _)

\* (*_mqtt_callbacks[i])(event, topic, message): the call and what the callback does
Invoke(kind, i, event, topic, buf, st) ==
    LET s1 == Log(st, [op |-> "callback", cb |-> i, fn |-> kind, ev |-> event,
                       topic |-> topic, buf |-> buf])
    IN  CASE kind = "subscriber" -> mqttSubscribe(s1, "cmd", MQTT_QOS_LEVEL)
          [] kind = "publisher" -> mqttPublish(s1, "state", "on")
          [] kind = "dropper" ->
                IF event = MQTT_EVENT_CONNECT /\ mqtt_connected(s1)
                THEN onMQTTDisconnect([s1 EXCEPT !.conn = "Disconnected"],
                                      "TCP_DISCONNECTED")
                ELSE s1
          [] OTHER -> s1

\* Variant: the loop stops after its first callback
Dispatch_FirstOnly(event, topic, buf, i, st) ==
    IF i < Len(mqtt_callbacks)
    THEN Invoke(mqtt_callbacks[i + 1], i, event, topic, buf, st)
    ELSE st

\* for (uint8_t i = 0; i < _mqtt_callbacks.size(); i++) (*_mqtt_callbacks[i])(...)
Dispatch(event, topic, buf, i, st) ==
    IF i < Len(mqtt_callbacks)
    THEN Dispatch(event, topic, buf, (i + 1) % 256,
                  Invoke(mqtt_callbacks[i + 1], i, event, topic, buf, st))
    ELSE st

\* onMQTTDisconnect is entered: DEBUGLOG("[MQTT] Disconnected. Reason: %d\n", reason)
Entered(st, reason) ==
    [Log(st, [op |-> "onMQTTDisconnect", reason |-> reason])
        EXCEPT !.burst = IF @ < MaxBurst THEN @ + 1 ELSE @]

\* Variant: an authorization failure is taken as final and schedules no retry
onMQTTDisconnect_GivesUp(st, reason) ==
    LET s0 == Entered(st, reason)
        s1 == Dispatch(MQTT_EVENT_DISCONNECT, NULL, <<>>, 0, s0)
    IN  IF reason = "MQTT_NOT_AUTHORIZED" THEN s1 ELSE Ticker_once(s1)

onMQTTDisconnect(st, reason) ==
    LET s0 == Entered(st, reason)
    IN  Ticker_once(Dispatch(MQTT_EVENT_DISCONNECT, NULL, <<>>, 0, s0))

\* Variant: the flag is set only when the publish was not dropped
onMQTTConnect_FlagOnSuccess(st, sessionPresent) ==
    LET s0 == Log(st, [op |-> "onMQTTConnect"])
        s1 == Dispatch(MQTT_EVENT_CONNECT, NULL, <<>>, 0, s0)
    IN  IF use_discovery /\ ~s1.is_discovered /\ mqtt_connected(s1)
        THEN LET s2 == mqttPublish(s1, dc_topic, md_buffer)
                 s3 == [Log(s2, [op |-> "set_is_discovered"])
                           EXCEPT !.is_discovered = TRUE, !.flagSets = @ + 1]
             IN  EEPROM_write(s3)
        ELSE s1

\* Variant: the announced flag is never set
onMQTTConnect_NoFlag(st, sessionPresent) ==
    LET s0 == Log(st, [op |-> "onMQTTConnect"])
        s1 == Dispatch(MQTT_EVENT_CONNECT, NULL, <<>>, 0, s0)
    IN  IF use_discovery /\ ~s1.is_discovered
        THEN mqttPublish(s1, dc_topic, md_buffer)
        ELSE s1

\* Variant: the discovery setting is not consulted
onMQTTConnect_IgnoresSetting(st, sessionPresent) ==
    LET s0 == Log(st, [op |-> "onMQTTConnect"])
        s1 == Dispatch(MQTT_EVENT_CONNECT, NULL, <<>>, 0, s0)
    IN  IF ~s1.is_discovered
        THEN LET s2 == mqttPublish(s1, dc_topic, md_buffer)
                 s3 == [Log(s2, [op |-> "set_is_discovered"])
                           EXCEPT !.is_discovered = TRUE, !.flagSets = @ + 1]
             IN  EEPROM_write(s3)
        ELSE s1

\* Variant: the configuration is saved on every connect
onMQTTConnect_AlwaysSaves(st, sessionPresent) ==
    LET s0 == Log(st, [op |-> "onMQTTConnect"])
        s1 == Dispatch(MQTT_EVENT_CONNECT, NULL, <<>>, 0, s0)
    IN  IF use_discovery /\ ~s1.is_discovered
        THEN LET s2 == mqttPublish(s1, dc_topic, md_buffer)
                 s3 == [Log(s2, [op |-> "set_is_discovered"])
                           EXCEPT !.is_discovered = TRUE, !.flagSets = @ + 1]
             IN  EEPROM_write(s3)
        ELSE EEPROM_write(s1)

\* Variant: the announced flag is not consulted
onMQTTConnect_IgnoresFlag(st, sessionPresent) ==
    LET s0 == Log(st, [op |-> "onMQTTConnect"])
        s1 == Dispatch(MQTT_EVENT_CONNECT, NULL, <<>>, 0, s0)
    IN  IF use_discovery
        THEN LET s2 == mqttPublish(s1, dc_topic, md_buffer)
                 s3 == [Log(s2, [op |-> "set_is_discovered"])
                           EXCEPT !.is_discovered = TRUE, !.flagSets = @ + 1]
             IN  EEPROM_write(s3)
        ELSE s1

\* Variant: the announcement is made before the callbacks are notified
onMQTTConnect_AnnounceFirst(st, sessionPresent) ==
    LET s0 == Log(st, [op |-> "onMQTTConnect"])
        s1 == IF use_discovery /\ ~s0.is_discovered
              THEN LET s2 == mqttPublish(s0, dc_topic, md_buffer)
                       s3 == [Log(s2, [op |-> "set_is_discovered"])
                                 EXCEPT !.is_discovered = TRUE, !.flagSets = @ + 1]
                   IN  EEPROM_write(s3)
              ELSE s0
    IN  Dispatch(MQTT_EVENT_CONNECT, NULL, <<>>, 0, s1)

onMQTTConnect(st, sessionPresent) ==
    LET s0 == Log(st, [op |-> "onMQTTConnect"])
        s1 == Dispatch(MQTT_EVENT_CONNECT, NULL, <<>>, 0, s0)
    IN  IF use_discovery /\ ~s1.is_discovered
        THEN LET s2 == mqttPublish(s1, dc_topic, md_buffer)
                 s3 == [Log(s2, [op |-> "set_is_discovered"])
                           EXCEPT !.is_discovered = TRUE, !.flagSets = @ + 1]
             IN  EEPROM_write(s3)
        ELSE s1

\* Variant: the terminating zero overwrites the last byte copied
Convert_ShortByOne(payload, length) ==
    IF length = 0 THEN <<0>> ELSE SubSeq(payload, 1, length - 1) \o <<0, 0>>

\* char message[length + 1]; os_memcpy(message, payload, length); message[length] = 0
Convert(payload, length) == SubSeq(payload, 1, length) \o <<0>>

\* Variant: parts of a fragmented message are not dispatched
onMQTTMessage_WholeOnly(st, topic, payload, length, index, total) ==
    LET s0 == Log(st, [op |-> "onMQTTMessage", topic |-> topic])
    IN  IF index = 0 /\ total = length
        THEN Dispatch(MQTT_EVENT_MESSAGE, topic, Convert(payload, length), 0, s0)
        ELSE s0

onMQTTMessage(st, topic, payload, length, index, total) ==
    LET s0 == Log(st, [op |-> "onMQTTMessage", topic |-> topic])
    IN  Dispatch(MQTT_EVENT_MESSAGE, topic, Convert(payload, length), 0, s0)

\* The text a callback reads at `const char *message`: the bytes before the first zero
RECURSIVE CStr(_)
CStr(buf) ==
    IF buf = <<>> \/ Head(buf) = 0 THEN <<>> ELSE <<Head(buf)>> \o CStr(Tail(buf))

mqttConnect(st) == mqtt_connect(st)

-----------------------------------------------------------------------------
(* The steps of the event loop *)

Call(op, topic, msg, qos, reason, payload, length, index, total) ==
    [op |-> op, topic |-> topic, msg |-> msg, qos |-> qos, reason |-> reason,
     payload |-> payload, length |-> length, index |-> index, total |-> total]

NoCall == Call("setupMQTT", "", "", "", "", <<>>, 0, 0, 0)

Commit(st, c) ==
    /\ conn' = st.conn
    /\ timers' = st.timers
    /\ is_discovered' = st.is_discovered
    /\ trace' = st.trace
    /\ discPubs' = st.discPubs
    /\ flagSets' = st.flagSets
    /\ eepromWrites' = st.eepromWrites
    /\ burst' = st.burst
    /\ UNCHANGED loopVars
    /\ call' = c
    /\ UNCHANGED <<use_discovery, hostname, disc_prefix>>

Init ==
    /\ mqtt_callbacks = <<>>
    /\ conn = "Disconnected"
    /\ timers = 0
    /\ use_discovery \in BOOLEAN
    /\ is_discovered \in BOOLEAN
    /\ hostname \in Hostnames
    /\ disc_prefix \in Prefixes
    /\ call = NoCall
    /\ trace = <<>>
    /\ discPubs = 0
    /\ flagSets = 0
    /\ eepromWrites = 0
    /\ burst = 0
    /\ loop_pc = "idle"
    /\ loop_size = 0
    /\ loop_i = 0
    /\ loop_calls = <<>>

Register ==
    \E kind \in CallbackKinds :
        /\ Len(mqtt_callbacks) < MaxCallbacks
        /\ mqtt_callbacks' = mqttRegister(mqtt_callbacks, kind)
        /\ Commit(State, Call("mqttRegister", "", "", "", "", <<>>, 0, 0, 0))

Publish ==
    \E topic \in Topics, message \in Messages :
        /\ Commit(mqttPublish(State, topic, message),
                  Call("mqttPublish", topic, message, "", "", <<>>, 0, 0, 0))
        /\ UNCHANGED mqtt_callbacks

Subscribe ==
    \E topic \in Topics, qos \in QosLevels :
        /\ Commit(mqttSubscribe(State, topic, qos),
                  Call("mqttSubscribe", topic, "", qos, "", <<>>, 0, 0, 0))
        /\ UNCHANGED mqtt_callbacks

Unsubscribe ==
    \E topic \in Topics :
        /\ Commit(mqttUnsubscribe(State, topic),
                  Call("mqttUnsubscribe", topic, "", "", "", <<>>, 0, 0, 0))
        /\ UNCHANGED mqtt_callbacks

\* mqttConnect() called by the firmware (e.g. when the network comes up)
Connect ==
    /\ Commit(mqttConnect(State), Call("mqttConnect", "", "", "", "", <<>>, 0, 0, 0))
    /\ UNCHANGED mqtt_callbacks

\* Variant: the Ticker is periodic, it stays armed when it expires
TimerFire_Periodic ==
    /\ timers > 0
    /\ Commit(mqttConnect([State EXCEPT !.burst = 0]),
              Call("timer", "", "", "", "", <<>>, 0, 0, 0))
    /\ UNCHANGED mqtt_callbacks

\* mqttReconnectTimer expires: a one-shot Ticker, it disarms and calls mqttConnect
TimerFire ==
    /\ timers > 0
    /\ Commit(mqttConnect([State EXCEPT !.timers = @ - 1, !.burst = 0]),
              Call("timer", "", "", "", "", <<>>, 0, 0, 0))
    /\ UNCHANGED mqtt_callbacks

\* The transport's connect attempt succeeds and it calls onMQTTConnect
ConnectEvent ==
    \E sessionPresent \in BOOLEAN :
        /\ conn = "Connecting"
        /\ Commit(onMQTTConnect([State EXCEPT !.conn = "Connected"], sessionPresent),
                  Call("onMQTTConnect", "", "", "", "", <<>>, 0, 0, 0))
        /\ UNCHANGED mqtt_callbacks

\* The attempt fails or the connection is lost and the transport calls onMQTTDisconnect
DisconnectEvent ==
    \E reason \in Reasons :
        /\ conn \in {"Connecting", "Connected"}
        /\ Commit(onMQTTDisconnect([State EXCEPT !.conn = "Disconnected"], reason),
                  Call("onMQTTDisconnect", "", "", "", reason, <<>>, 0, 0, 0))
        /\ UNCHANGED mqtt_callbacks

\* A delivery arrives: `length` bytes at `payload`, part `index` of `total`
MessageEvent ==
    \E topic \in Topics \ {""}, payload \in Payloads, frag \in Fragments :
      \E length \in 0..Len(payload) :
        /\ conn = "Connected"
        /\ Commit(onMQTTMessage(State, topic, payload, length, frag[1],
                                frag[1] + length + frag[2]),
                  Call("onMQTTMessage", topic, "", "", "", payload, length, frag[1],
                       frag[1] + length + frag[2]))
        /\ UNCHANGED mqtt_callbacks

Next ==
    \/ Register
    \/ Publish
    \/ Subscribe
    \/ Unsubscribe
    \/ Connect
    \/ TimerFire
    \/ ConnectEvent
    \/ DisconnectEvent
    \/ MessageEvent

-----------------------------------------------------------------------------
(* One dispatch loop, an iteration a step, over registries of up to 257     *)
(* callbacks:  for (uint8_t i = 0; i < _mqtt_callbacks.size(); i++) ...     *)

Sizes == {0, 2, 255, 256, 257}

LoopInit ==
    /\ mqtt_callbacks = <<>>
    /\ conn = "Connected"
    /\ timers = 0
    /\ use_discovery = FALSE
    /\ is_discovered = FALSE
    /\ hostname \in Hostnames
    /\ disc_prefix \in Prefixes
    /\ call = Call("onMQTTConnect", "", "", "", "", <<>>, 0, 0, 0)
    /\ trace = <<>>
    /\ discPubs = 0
    /\ flagSets = 0
    /\ eepromWrites = 0
    /\ burst = 0
    /\ loop_pc = "loop"
    /\ loop_size \in Sizes
    /\ loop_i = 0
    /\ loop_calls = [k \in 0..(loop_size - 1) |-> 0]

\* i < _mqtt_callbacks.size(): (*_mqtt_callbacks[i])(...); i++
LoopStep ==
    /\ loop_pc = "loop"
    /\ loop_i < loop_size
    /\ loop_calls[loop_i] < MaxInvocations
    /\ loop_calls' = [loop_calls EXCEPT ![loop_i] = @ + 1]
    /\ loop_i' = (loop_i + 1) % 256
    /\ UNCHANGED <<loop_pc, loop_size, moduleVars>>

\* !(i < _mqtt_callbacks.size()): the loop is left
LoopExit ==
    /\ loop_pc = "loop"
    /\ ~(loop_i < loop_size)
    /\ loop_pc' = "done"
    /\ UNCHANGED <<loop_size, loop_i, loop_calls, moduleVars>>

LoopNext ==
    \/ LoopStep
    \/ LoopExit

LoopSpec == LoopInit /\ [][LoopNext]_vars

\* The Ticker is driven by the system's timer: an armed timer expires
FairSpec == Init /\ [][Next]_vars /\ WF_vars(TimerFire)

Spec == Init /\ [][Next]_vars

-----------------------------------------------------------------------------
(* Properties *)

ReqOps == {"publish", "subscribe", "unsubscribe"}
ApiOps == {"mqttPublish", "mqttSubscribe", "mqttUnsubscribe"}

Count(t, op) == Cardinality({k \in 1..Len(t) : t[k].op = op})
HasOp(t, op) == \E k \in 1..Len(t) : t[k].op = op
Requests(t) == SelectSeq(t, LAMBDA e : e.op \in ReqOps)
Invocations(t, ev) == SelectSeq(t, LAMBDA e : e.op = "callback" /\ e.ev = ev)

\* The module state other than the record of the last step
FrameUnchanged ==
    UNCHANGED <<mqtt_callbacks, conn, timers, use_discovery, is_discovered,
                hostname, disc_prefix, discPubs, flagSets, eepromWrites>>

\* C1: while the connection is not Connected, no call of mqttPublish,
\* mqttSubscribe or mqttUnsubscribe (by the firmware or by a callback) makes a
\* request to the transport, and the connection becomes Connected only in the
\* step of the transport's connect event, never in a step that calls connect().
C1_NoRequestUnlessConnected ==
    [][ /\ \A k \in 1..Len(trace') : trace'[k].op \in ReqOps => trace'[k].up
        /\ (call'.op \in ApiOps /\ conn # "Connected") => trace' = <<>>
        /\ (conn # "Connected" /\ conn' = "Connected") => call'.op = "onMQTTConnect"
        /\ HasOp(trace', "connect") => (conn' = "Connected" <=> conn = "Connected")
      ]_vars

C1_Witness ==
    /\ call.op = "mqttPublish" /\ call.topic = "cmd" /\ call.msg = "on"
    /\ conn = "Connecting"
    /\ trace = <<>>

\* C2: while Connected, a call with an empty topic (or, for mqttPublish, an
\* empty message) sends nothing and changes no state; any other call makes
\* exactly one request, the one it names, with its arguments.
C2_EmptyArgumentGuard ==
    [][ (call'.op \in ApiOps /\ conn = "Connected") =>
          /\ FrameUnchanged
          /\ IF call'.topic = "" \/ (call'.op = "mqttPublish" /\ call'.msg = "")
             THEN trace' = <<>>
             ELSE /\ Len(trace') = 1
                  /\ trace'[1].topic = call'.topic
                  /\ CASE call'.op = "mqttPublish" ->
                            /\ trace'[1].op = "publish"
                            /\ trace'[1].msg = call'.msg
                            /\ trace'[1].qos = MQTT_QOS_LEVEL
                            /\ trace'[1].retain = MQTT_RETAIN
                       [] call'.op = "mqttSubscribe" ->
                            /\ trace'[1].op = "subscribe"
                            /\ trace'[1].qos = call'.qos
                       [] OTHER -> trace'[1].op = "unsubscribe"
      ]_vars

C2_Witness ==
    /\ call.op = "mqttPublish" /\ call.topic = "" /\ call.msg = "on"
    /\ conn = "Connected"
    /\ trace = <<>>

\* The callbacks a dispatch of `ev` invoked are the registered ones, each once,
\* in registration order
FanOut(t, ev) ==
    LET inv == Invocations(t, ev)
    IN  /\ Len(inv) = Len(mqtt_callbacks)
        /\ \A k \in 1..Len(inv) :
              inv[k].cb = k - 1 /\ inv[k].fn = mqtt_callbacks[k]

HandledEvent(op) ==
    CASE op = "onMQTTConnect" -> MQTT_EVENT_CONNECT
      [] op = "onMQTTDisconnect" -> MQTT_EVENT_DISCONNECT
      [] OTHER -> MQTT_EVENT_MESSAGE

\* C3: a connect, disconnect or message event invokes every registered
\* callback exactly once, in registration order, within the step that handles
\* the event (a callback registered twice is invoked twice); a message event
\* hands every callback the delivery's topic and the same text.
C3_FanOutCompleteness ==
    /\ \A op \in {"onMQTTConnect", "onMQTTDisconnect", "onMQTTMessage"} :
          HasOp(trace, op) => FanOut(trace, HandledEvent(op))
    /\ \A ev \in {MQTT_EVENT_CONNECT, MQTT_EVENT_DISCONNECT, MQTT_EVENT_MESSAGE} :
          Invocations(trace, ev) # <<>> => FanOut(trace, ev)
    /\ call.op \in {"onMQTTConnect", "onMQTTDisconnect", "onMQTTMessage"}
          => HasOp(trace, call.op)
    /\ \A k \in 1..Len(trace) :
          trace[k].op = "callback" =>
             IF trace[k].ev = MQTT_EVENT_MESSAGE
             THEN trace[k].topic = call.topic
             ELSE trace[k].topic = NULL

C3_Witness ==
    /\ call.op = "onMQTTMessage"
    /\ Len(mqtt_callbacks) = 2
    /\ mqtt_callbacks[1] = mqtt_callbacks[2]
    /\ Len(Invocations(trace, MQTT_EVENT_MESSAGE)) = 2

\* C4: at most one reconnect timer is armed in any state, and exactly one
\* when onMQTTDisconnect has run, also when a timer was armed already.
C4_SinglePendingReconnect ==
    /\ timers <= 1
    /\ HasOp(trace, "onMQTTDisconnect") =>
          Count(trace, "timer_once") = 1 /\ timers = 1

\* a disconnect handled while the timer of an earlier disconnect is still armed
C4_Witness ==
    /\ call.op = "onMQTTDisconnect"
    /\ \E k \in 1..Len(trace) : trace[k].op = "timer_once" /\ trace[k].armed = 1
    /\ timers = 1

\* C5: every run of onMQTTDisconnect, whatever its reason and however many
\* attempts failed before it, is followed by a connect() request to the
\* transport, given that an armed timer expires.
C5_DisconnectLeadsToConnect ==
    HasOp(trace, "onMQTTDisconnect") ~> HasOp(trace, "connect")

\* the timer armed by a failed attempt has expired and requested the next attempt
C5_Witness ==
    /\ call.op = "timer"
    /\ HasOp(trace, "connect")
    /\ conn = "Connecting"
    /\ timers = 0

\* The topic and the document of the announcement, as the wire format gives them
DiscoveryTopic == disc_prefix \o "/light/" \o hostname \o "/config"

DiscoveryDocument ==
    "{\"name\":\"" \o hostname \o "\",\"platform\":\"mqtt_json\",\"state_topic\":\""
      \o mqtt_state_topic \o "\",\"command_topic\":\"" \o mqtt_command_topic
      \o "\",\"brightness\":true,\"rgb\":true,\"white_value\":true,\"color_temp\":true}"

DiscoveryPublishes(t) ==
    SelectSeq(t, LAMBDA e : e.op = "publish" /\ e.topic = DiscoveryTopic)

\* The announcement made nothing happen
AnnouncementNoOp ==
    /\ DiscoveryPublishes(trace') = <<>>
    /\ is_discovered' = is_discovered
    /\ ~HasOp(trace', "set_is_discovered")
    /\ ~HasOp(trace', "EEPROM_write")

\* C6 as stated: with discovery enabled and the flag false, a connect event
\* makes exactly one publish of the document to the discovery topic and
\* leaves the flag true.
C6_Original ==
    [][ (call'.op = "onMQTTConnect" /\ use_discovery /\ ~is_discovered) =>
          /\ Len(DiscoveryPublishes(trace')) = 1
          /\ is_discovered'
      ]_vars

\* C6: with discovery enabled and the flag false, a connect event leaves the
\* flag true, and makes exactly one publish of the document to the discovery
\* topic if the transport still reports connected when the announcement runs,
\* and none if a callback closed the connection during the CONNECT dispatch.
C6_DiscoveryOnFirstConnect ==
    [][ (call'.op = "onMQTTConnect" /\ use_discovery /\ ~is_discovered) =>
          /\ is_discovered'
          /\ IF conn' = "Connected"
             THEN /\ Len(DiscoveryPublishes(trace')) = 1
                  /\ DiscoveryPublishes(trace')[1].msg = DiscoveryDocument
             ELSE DiscoveryPublishes(trace') = <<>>
      ]_vars

C6_Witness ==
    /\ call.op = "onMQTTConnect"
    /\ conn = "Connected"
    /\ is_discovered
    /\ Len(DiscoveryPublishes(trace)) = 1
    /\ HasOp(trace, "set_is_discovered")

\* C7: once the flag is true no step publishes to the discovery topic, and
\* the publishes to the discovery topic over a run number at most one.
C7_DiscoveryIdempotence ==
    [][ /\ is_discovered => (discPubs' = discPubs /\ DiscoveryPublishes(trace') = <<>>)
        /\ discPubs' <= 1
      ]_vars

\* a connect event after the announcement
C7_Witness ==
    /\ call.op = "onMQTTConnect"
    /\ conn = "Connected"
    /\ use_discovery
    /\ discPubs = 1
    /\ DiscoveryPublishes(trace) = <<>>

\* C8: with discovery disabled no step publishes to the discovery topic,
\* changes the flag or requests persistence.
C8_DiscoveryDisabled ==
    [][ ~use_discovery => (AnnouncementNoOp /\ discPubs' = 0 /\ eepromWrites' = 0)
      ]_vars

C8_Witness ==
    /\ ~use_discovery
    /\ ~is_discovered
    /\ call.op = "onMQTTConnect"
    /\ conn = "Connected"

\* C9: the flag only goes from false to true, at most once in a run, and
\* EEPROM_write is requested exactly once per change, as the very next thing
\* the handler does, and in no step that leaves the flag as it was.
C9_FlagMonotonic ==
    [][ /\ is_discovered => is_discovered'
        /\ flagSets' <= 1
        /\ flagSets' = flagSets + (IF is_discovered' # is_discovered THEN 1 ELSE 0)
        /\ Count(trace', "EEPROM_write")
             = (IF is_discovered' # is_discovered THEN 1 ELSE 0)
        /\ eepromWrites' = flagSets'
        /\ \A k \in 1..Len(trace') :
              trace'[k].op = "set_is_discovered" =>
                 k < Len(trace') /\ trace'[k + 1].op = "EEPROM_write"
      ]_vars

C9_Witness ==
    /\ flagSets = 1
    /\ eepromWrites = 1
    /\ is_discovered
    /\ \E k \in 1..Len(trace) : trace[k].op = "set_is_discovered"

\* C10 as stated: the announcement does nothing unless discovery is enabled,
\* the flag is false and the transport is connected when it runs.
C10_Original ==
    [][ (call'.op = "onMQTTConnect"
           /\ ~(use_discovery /\ ~is_discovered /\ conn' = "Connected"))
          => AnnouncementNoOp
      ]_vars

\* C10: the announcement does nothing unless discovery is enabled and the flag
\* is false; when both hold and the transport is not connected as it runs, no
\* publish is made, but the flag is set and persistence is requested.
C10_AnnouncementPreconditions ==
    [][ call'.op = "onMQTTConnect" =>
          /\ ~(use_discovery /\ ~is_discovered) => AnnouncementNoOp
          /\ (use_discovery /\ ~is_discovered /\ conn' # "Connected") =>
                /\ DiscoveryPublishes(trace') = <<>>
                /\ discPubs' = discPubs
                /\ is_discovered'
                /\ Count(trace', "EEPROM_write") = 1
      ]_vars

\* the announcement ran after a callback had closed the connection
C10_Witness ==
    /\ call.op = "onMQTTConnect"
    /\ conn # "Connected"
    /\ HasOp(trace, "set_is_discovered")
    /\ is_discovered
    /\ discPubs = 0

\* C11 as stated: the text handed to every callback has exactly `length`
\* characters and equals the first `length` bytes of the payload.
C11_Original ==
    \A k \in 1..Len(trace) :
        (trace[k].op = "callback" /\ trace[k].ev = MQTT_EVENT_MESSAGE) =>
            /\ Len(CStr(trace[k].buf)) = call.length
            /\ CStr(trace[k].buf) = SubSeq(call.payload, 1, call.length)

ZeroFree(bytes) == \A j \in 1..Len(bytes) : bytes[j] # 0

\* C11: the buffer handed to every callback holds the first `length` bytes of
\* the payload, unmodified, followed by a zero byte; read as a zero-terminated
\* text it is the part of those bytes before their first zero byte, so it has
\* `length` characters exactly when none of those bytes is zero.
C11_PayloadFidelity ==
    \A k \in 1..Len(trace) :
        (trace[k].op = "callback" /\ trace[k].ev = MQTT_EVENT_MESSAGE) =>
            LET buf == trace[k].buf
                txt == CStr(buf)
                L == call.length
            IN  /\ Len(buf) = L + 1
                /\ \A j \in 1..L : buf[j] = call.payload[j]
                /\ buf[L + 1] = 0
                /\ Len(txt) <= L
                /\ txt = SubSeq(call.payload, 1, Len(txt))
                /\ ZeroFree(txt)
                /\ Len(txt) < L => call.payload[Len(txt) + 1] = 0
                /\ Len(txt) = L <=> ZeroFree(SubSeq(call.payload, 1, L))

\* a delivery of three bytes, the second of them zero, read as a text of one character
C11_Witness ==
    /\ call.op = "onMQTTMessage"
    /\ call.length = 3
    /\ \E k \in 1..Len(trace) :
          /\ trace[k].op = "callback"
          /\ trace[k].buf = <<1, 0, 2, 0>>
          /\ CStr(trace[k].buf) = <<1>>

\* C12: when the announcement's publish is dropped because the transport is
\* not connected, the flag is set and persisted all the same, and from then
\* on no connect event publishes to the discovery topic or sets the flag again.
C12_DroppedAnnouncementNotRetried ==
    [][ /\ (call'.op = "onMQTTConnect" /\ use_discovery /\ ~is_discovered
              /\ conn' # "Connected") =>
                /\ DiscoveryPublishes(trace') = <<>>
                /\ is_discovered'
                /\ HasOp(trace', "set_is_discovered")
                /\ HasOp(trace', "EEPROM_write")
                /\ eepromWrites' = eepromWrites + 1
        /\ (is_discovered /\ discPubs = 0) =>
                /\ is_discovered' /\ discPubs' = 0
                /\ ~HasOp(trace', "set_is_discovered")
      ]_vars

\* a later connect event after the dropped announcement: nothing is announced
C12_Witness ==
    /\ call.op = "onMQTTConnect"
    /\ use_discovery
    /\ is_discovered /\ flagSets = 1 /\ eepromWrites = 1
    /\ discPubs = 0
    /\ ~HasOp(trace, "set_is_discovered")

Position(t, op) == CHOOSE k \in 1..Len(t) : t[k].op = op

\* C13: within a connect event the CONNECT event is handed to every callback
\* first; then the discovery document is published, then the flag is set,
\* then persistence is requested.
C13_ConnectOrder ==
    (call.op = "onMQTTConnect" /\ HasOp(trace, "set_is_discovered")) =>
        LET ks == Position(trace, "set_is_discovered")
        IN  /\ Len(trace) = ks + 1
            /\ trace[ks + 1].op = "EEPROM_write"
            /\ Len(SelectSeq(SubSeq(trace, 1, ks),
                             LAMBDA e : e.op = "callback" /\ e.ev = MQTT_EVENT_CONNECT))
                 = Len(mqtt_callbacks)
            /\ \A k \in 1..Len(trace) :
                  (trace[k].op = "publish" /\ trace[k].topic = DiscoveryTopic) =>
                      /\ k = ks - 1
                      /\ \A j \in 1..Len(trace) : trace[j].op = "callback" => j < k

C13_Witness ==
    /\ call.op = "onMQTTConnect"
    /\ Len(mqtt_callbacks) = 2
    /\ Len(DiscoveryPublishes(trace)) = 1
    /\ HasOp(trace, "set_is_discovered")
    /\ trace[Len(trace)].op = "EEPROM_write"

\* C14: however many disconnects precede the expiry of the reconnect timer,
\* one timer is armed, its expiry makes one connect() request and leaves no
\* timer armed; each of the disconnects hands one DISCONNECT event to every
\* callback.
C14_BurstOneReconnect ==
    [][ /\ burst' >= 1 => timers' = 1
        /\ call'.op = "timer" =>
              /\ timers = 1 /\ timers' = 0
              /\ Count(trace', "connect") = 1
              /\ burst' = 0
        /\ call'.op = "onMQTTDisconnect" =>
              /\ burst' = (IF burst < MaxBurst THEN burst + 1 ELSE burst)
              /\ Len(Invocations(trace', MQTT_EVENT_DISCONNECT)) = Len(mqtt_callbacks)
              /\ \A k \in 1..Len(mqtt_callbacks) :
                    Invocations(trace', MQTT_EVENT_DISCONNECT)[k].fn = mqtt_callbacks[k]
      ]_vars

\* the third disconnect before the timer expires: still one timer armed
C14_Witness ==
    /\ burst = 3
    /\ timers = 1
    /\ call.op = "onMQTTDisconnect"
    /\ Len(mqtt_callbacks) >= 1
    /\ Len(Invocations(trace, MQTT_EVENT_DISCONNECT)) = Len(mqtt_callbacks)

\* C15: every run of onMQTTMessage hands exactly one MESSAGE event to every
\* registered callback, with the topic and the converted bytes of this
\* delivery, whatever its length (0 included) and whatever index and total
\* say; nothing of a delivery is kept for a later one.
C15_EveryDeliveryDispatched ==
    [][ call'.op = "onMQTTMessage" =>
          /\ FrameUnchanged
          /\ Count(trace', "callback") = Len(mqtt_callbacks)
          /\ Len(Invocations(trace', MQTT_EVENT_MESSAGE)) = Len(mqtt_callbacks)
          /\ \A k \in 1..Len(trace') :
                trace'[k].op = "callback" =>
                   /\ trace'[k].ev = MQTT_EVENT_MESSAGE
                   /\ trace'[k].topic = call'.topic
                   /\ Len(trace'[k].buf) = call'.length + 1
                   /\ SubSeq(trace'[k].buf, 1, call'.length)
                        = SubSeq(call'.payload, 1, call'.length)
      ]_vars

\* an empty part of a fragmented message is dispatched like any delivery
C15_Witness ==
    /\ call.op = "onMQTTMessage"
    /\ call.length = 0
    /\ call.index = 1 /\ call.total > call.index + call.length
    /\ Len(mqtt_callbacks) = 2
    /\ Len(Invocations(trace, MQTT_EVENT_MESSAGE)) = 2
    /\ trace[Len(trace)].buf = <<0>>

\* The entry after a callback's invocation is the request the callback made
Reached(t, k) ==
    /\ k < Len(t)
    /\ IF t[k].fn = "subscriber"
       THEN t[k + 1].op = "subscribe" /\ t[k + 1].topic = "cmd"
       ELSE t[k + 1].op = "publish" /\ t[k + 1].topic = "state"

Callers == {"subscriber", "publisher"}

\* C16 as stated: a callback that calls mqttSubscribe or mqttPublish while it
\* handles CONNECT reaches the transport, and makes no request while it
\* handles DISCONNECT.
C16_Original ==
    \A k \in 1..Len(trace) :
        (trace[k].op = "callback" /\ trace[k].fn \in Callers) =>
            /\ trace[k].ev = MQTT_EVENT_CONNECT => Reached(trace, k)
            /\ trace[k].ev = MQTT_EVENT_DISCONNECT => ~Reached(trace, k)

\* C16: a callback handling DISCONNECT sees the transport not connected and
\* its call makes no request; a callback handling CONNECT sees it connected
\* and its call reaches the transport, unless a callback registered before it
\* closed the connection while handling the same CONNECT event.
C16_StateSeenByCallback ==
    \A k \in 1..Len(trace) :
        trace[k].op = "callback" =>
            /\ trace[k].ev = MQTT_EVENT_DISCONNECT => ~trace[k].up
            /\ trace[k].ev = MQTT_EVENT_CONNECT =>
                  (trace[k].up <=>
                     \A j \in 1..trace[k].cb : mqtt_callbacks[j] # "dropper")
            /\ trace[k].fn \in Callers => (Reached(trace, k) <=> trace[k].up)

\* a subscriber's call reaches the transport from CONNECT and not from DISCONNECT
C16_Witness ==
    /\ call.op = "onMQTTConnect"
    /\ mqtt_callbacks = <<"subscriber", "dropper">>
    /\ Count(trace, "subscribe") = 1
    /\ Reached(trace, 2)
    /\ \E k \in 1..Len(trace) :
          /\ trace[k].fn = "subscriber" /\ trace[k].ev = MQTT_EVENT_DISCONNECT
          /\ ~Reached(trace, k)

\* C17 as stated: no reconnect timer is armed while Connected.
C17_Original == conn = "Connected" => timers = 0

\* C17: a reconnect timer is armed while an attempt runs or while Connected
\* only if mqttConnect() was called directly while the timer was armed (the
\* connect handler does not cancel it); the expiry of such a timer requests
\* connect() while Connected and leaves the connection Connected.
C17_TimerWhileConnected ==
    [][ /\ (timers' > 0 /\ conn' = "Connecting") =>
              /\ timers > 0
              /\ conn = "Connecting" \/ (conn = "Disconnected" /\ call'.op = "mqttConnect")
        /\ (timers' > 0 /\ conn' = "Connected") =>
              /\ timers > 0
              /\ conn = "Connected" \/ (conn = "Connecting" /\ call'.op = "onMQTTConnect")
        /\ (call'.op = "onMQTTConnect" /\ ~HasOp(trace', "onMQTTDisconnect")) =>
              timers' = timers
        /\ (call'.op = "timer" /\ conn = "Connected") =>
              /\ Count(trace', "connect") = 1
              /\ conn' = "Connected"
              /\ timers' = 0
      ]_vars

\* the timer of an earlier disconnect expires while Connected
C17_Witness ==
    /\ call.op = "timer"
    /\ conn = "Connected"
    /\ HasOp(trace, "connect")
    /\ trace[1].op = "connect" /\ trace[1].up

\* C19: onMQTTMessage, mqttPublish, mqttSubscribe and mqttUnsubscribe leave
\* the connection state, the flag, the timer and the registry as they were;
\* a timer is armed only by onMQTTDisconnect and the flag changes only in
\* onMQTTConnect.
C19_Frame ==
    [][ /\ call'.op \in ApiOps \cup {"onMQTTMessage"} =>
              /\ UNCHANGED <<conn, is_discovered, timers, mqtt_callbacks>>
              /\ ~HasOp(trace', "timer_once")
              /\ ~HasOp(trace', "connect")
        /\ (timers' > timers \/ HasOp(trace', "timer_once")) =>
              /\ HasOp(trace', "onMQTTDisconnect")
              /\ call'.op \in {"onMQTTDisconnect", "onMQTTConnect"}
        /\ is_discovered' # is_discovered => call'.op = "onMQTTConnect"
        /\ mqtt_callbacks' # mqtt_callbacks => call'.op = "mqttRegister"
      ]_vars

\* a message handled with callbacks registered and a timer armed
C19_Witness ==
    /\ call.op = "onMQTTMessage"
    /\ timers = 1
    /\ conn = "Connected"
    /\ Len(mqtt_callbacks) = 2
    /\ Count(trace, "callback") = 2

\* C18: a dispatch loop invokes no callback more than once and, when it is
\* left, has invoked every callback exactly once, for registries of more
\* than 255 callbacks as for smaller ones.
C18_DispatchTerminatesOnce ==
    /\ \A k \in DOMAIN loop_calls : loop_calls[k] <= 1
    /\ loop_pc = "done" => \A k \in DOMAIN loop_calls : loop_calls[k] = 1

====
